---- MODULE Spec2Model ----
(***************************************************************************)
(* Model of the rpc-cache-cf-worker fetch handler (src/src/index.ts): a    *)
(* Cloudflare Worker that splits a JSON-RPC payload into calls, looks each *)
(* call up in the edge cache, forwards the uncached calls to the origin,   *)
(* writes the fresh results back and reassembles the response.             *)
(***************************************************************************)
EXTENDS Integers, Sequences, FiniteSets, TLC

\* ------------------------------------------------------------------------
\* Bounds of the model
\* ------------------------------------------------------------------------
\* Longest JSON-RPC batch a request carries.
MaxBatch == 3

\* Worker invocations that may be in flight.
Instances == {"w1", "w2"}

\* Entries the cache store holds at a time (it may evict or refuse beyond that).
MaxCache == 2

\* ------------------------------------------------------------------------
\* JSON values and texts
\* ------------------------------------------------------------------------
\* A JSON object of a JSON-RPC exchange: `hasId` tells whether the key `id`
\* is present; `method` names the call, `result` the payload of a result.
JObj(hasId, id, method, result) ==
  [k |-> "object", hasId |-> hasId, id |-> id, method |-> method, result |-> result]

JArr(elems) == [k |-> "array", elems |-> elems]

JNull == [k |-> "null"]

JStr == [k |-> "string"]

\* The JavaScript value `undefined`.
Undefined == [k |-> "undefined"]

\* A string holding no characters.
EmptyText == [k |-> "empty"]

\* A string that is the JSON text of value v; `lead` tells whether insignificant
\* whitespace precedes the first token (RFC 8259: JSON-text = ws value ws).
JsonText(v, lead) == [k |-> "json", lead |-> lead, v |-> v]

\* A non-empty string that is not a JSON text; `brace` tells whether its first
\* character is '{'.
BadText(brace) == [k |-> "bad", brace |-> brace]

\* A thrown exception.
Throw(message) == [k |-> "throw", message |-> message]

IsThrow(x) == x.k = "throw"

\* JSON.stringify: the compact text of a value, without leading whitespace.
JSON_stringify(v) == JsonText(v, FALSE)

\* JSON.parse: the value of a JSON text, a SyntaxError on anything else.
JSON_parse(t) == IF t.k = "json" THEN t.v ELSE Throw("SyntaxError")

\* String.prototype.startsWith('{').
startsWithBrace(t) ==
  CASE t.k = "json" -> (~t.lead) /\ t.v.k = "object"
    [] t.k = "bad"  -> t.brace
    [] OTHER        -> FALSE

\* JavaScript truthiness of a `string | undefined`.
Truthy(t) == t.k # "undefined" /\ t.k # "empty"

\* A JSON-RPC call and the result an origin computes for it (the origin echoes
\* the id of the call).
Call(id, method) == JObj(TRUE, id, method, "")

Notification(method) == JObj(FALSE, 0, method, "")

Result(call, v) == JObj(call.hasId, call.id, call.method, v)

\* The calls a JSON payload is made of: two calls that differ only in `id`,
\* and one object without an `id`.
Calls == {Call(1, "a"), Call(2, "a"), Notification("b")}

\* The calls a batch is made of.
BatchCalls == {Call(1, "a"), Notification("b")}

SeqsUpTo(S, n) == UNION {[1..m -> S] : m \in 0..n}

\* ------------------------------------------------------------------------
\* Key derivation
\* ------------------------------------------------------------------------
\* The digest of a message; distinct messages are taken to have distinct
\* digests.
sha1(message) == [k |-> "md5", of |-> message]

\* The body the digest is taken of: a body that starts with '{' is parsed and,
\* when it has an `id`, re-serialized with `id` set to -1.
NormalizedBody(body) ==
  IF Truthy(body) /\ startsWithBrace(body)
  THEN LET jsonBody == JSON_parse(body)
       IN  IF IsThrow(jsonBody) THEN jsonBody
           ELSE IF jsonBody.hasId
                THEN JSON_stringify([jsonBody EXCEPT !.id = -1])
                ELSE body
  ELSE body

\* The cache key of one call body of a request: a GET request for the URL whose
\* path is the request's path followed by the digest (nothing for no body).
cacheKeyForRequestAndBody(request, body) ==
  LET norm == NormalizedBody(body)
  IN  IF IsThrow(norm) THEN norm
      ELSE [k |-> "key", method |-> "GET", path |-> request.path,
            hash |-> IF Truthy(norm) THEN sha1(norm) ELSE [k |-> "nohash"]]

\* ------------------------------------------------------------------------
\* Requests, responses and the origin
\* ------------------------------------------------------------------------
CACHE_SECONDS == 1

\* Values of the Origin header: none, an origin on the allow-list, one off it.
AppOrigin == "https://app.daodao.zone"

EvilOrigin == "https://evil.example"

OriginHeaders == {"", AppOrigin, EvilOrigin}

\* ALLOWED_ORIGINS.some((r) => r.test(origin)) over OriginHeaders.
OriginAllowed(origin) == origin = AppOrigin

NoHeaders == [h \in {} |-> ""]

\* The CORS header of an assembled response.
CorsHeader(origin) ==
  IF OriginAllowed(origin) THEN "Access-Control-Allow-Origin" :> origin ELSE NoHeaders

\* A request: `origin` is the Origin header ('' for none), `acrm` tells whether
\* Access-Control-Request-Method is present, `acrh` is the value of
\* Access-Control-Request-Headers and `hasAcrh` tells whether that header is
\* present.
Req(method, contentType, body, origin, acrm, acrh) ==
  [k |-> "request", method |-> method, contentType |-> contentType, body |-> body,
   path |-> "/rpc", origin |-> origin, acrm |-> acrm, acrh |-> acrh,
   hasAcrh |-> acrh # ""]

\* The request r sent with an Access-Control-Request-Headers header whose
\* value is empty.
WithEmptyAcrh(r) == [r EXCEPT !.acrh = "", !.hasAcrh = TRUE]

\* Payloads sent as application/json: one call, a batch of 0..MaxBatch calls,
\* a malformed text and no text at all.
JsonPayloads ==
  {JsonText(c, FALSE) : c \in Calls}
    \cup {JsonText(JArr(s), FALSE) : s \in SeqsUpTo(BatchCalls, MaxBatch)}
    \cup {BadText(TRUE), EmptyText}

\* Payloads sent under another content type: no body, the text of a call with
\* and without leading whitespace, a malformed text that starts with '{'.
TextPayloads ==
  {EmptyText, BadText(TRUE), JsonText(Call(1, "a"), FALSE), JsonText(Call(1, "a"), TRUE)}

\* The requests a worker may receive.
Requests ==
  {Req("POST", "application/json", b, AppOrigin, FALSE, "") : b \in JsonPayloads}
    \cup {Req("POST", "text/plain", b, AppOrigin, FALSE, "") : b \in TextPayloads \ {EmptyText}}
    \cup {Req("GET", "", EmptyText, o, FALSE, "") : o \in OriginHeaders}
    \cup {Req("POST", "application/json", JsonText(Call(1, "a"), FALSE), o, FALSE, "") :
            o \in OriginHeaders}
    \cup {Req("OPTIONS", "", EmptyText, o, m, h) :
            o \in OriginHeaders, m \in BOOLEAN, h \in {"", "content-type"}}
    \cup {WithEmptyAcrh(Req("OPTIONS", "", EmptyText, AppOrigin, TRUE, ""))}
    \cup {Req("HEAD", "", EmptyText, AppOrigin, FALSE, "")}

Response(kind, status, body, headers) ==
  [k |-> "response", kind |-> kind, status |-> status, body |-> body, headers |-> headers]

\* new Response('Error thrown ' + e.message): status 200, a plain-text body.
Diagnostic(message) ==
  Response("diagnostic", 200, [k |-> "errortext", message |-> message],
           "Content-Type" :> "text/plain;charset=UTF-8")

\* The call an origin reads out of a request body.
RpcOf(body) ==
  IF body.k = "json" /\ body.v.k = "object" THEN body.v ELSE Notification("raw")

OriginAnswer(status, contentType, body) ==
  [k |-> "answer", status |-> status, contentType |-> contentType, body |-> body]

NetworkError == [k |-> "networkerror"]

HtmlPage == BadText(FALSE)

\* The array of results of the calls `rpcs`, each with payload v.
ResultArray(rpcs, v) == JArr([j \in 1..Len(rpcs) |-> Result(rpcs[j], v)])

\* The JSON the origin computes for one call: the result object of a JSON-RPC
\* call; for a body that is no JSON-RPC object (a bodiless GET), an array.
SoleResult(rpc) ==
  IF rpc = Notification("raw") THEN JArr(<<Result(rpc, "ok")>>) ELSE Result(rpc, "ok")

\* The content-type header of an HTML page served with its charset parameter.
HtmlWithCharset == "text/html; charset=utf-8"

\* What the origin may answer to the request carrying the calls `rpcs` (a sole
\* body when Len(rpcs) = 1, a re-batched array otherwise): no answer, a body
\* that is not JSON, an HTML page (its content type with or without the
\* charset parameter), the result (results) of the call (calls),
\* an array one shorter or one longer, one result where an array is due, and
\* an error under a 500 status.
OriginAnswers(rpcs) ==
  LET n    == Len(rpcs)
      good == ResultArray(rpcs, "ok")
  IN  {NetworkError, OriginAnswer(200, "application/json", BadText(FALSE)),
       OriginAnswer(200, "text/html", HtmlPage),
       OriginAnswer(200, HtmlWithCharset, HtmlPage)}
        \cup (IF n = 1
              THEN {OriginAnswer(200, "application/json", JSON_stringify(SoleResult(rpcs[1]))),
                    OriginAnswer(500, "application/json",
                                 JSON_stringify(Result(rpcs[1], "error")))}
              ELSE {OriginAnswer(200, "application/json", JSON_stringify(good)),
                    OriginAnswer(200, "application/json",
                                 JSON_stringify(JArr(SubSeq(good.elems, 1, n - 1)))),
                    OriginAnswer(200, "application/json",
                                 JSON_stringify(JArr(Append(good.elems, good.elems[1])))),
                    OriginAnswer(200, "application/json", JSON_stringify(good.elems[1])),
                    OriginAnswer(500, "application/json",
                                 JSON_stringify(ResultArray(rpcs, "error")))})

\* ------------------------------------------------------------------------
\* The steps of the fetch handler
\* ------------------------------------------------------------------------
\* Payload splitting: the call bodies of a GET/POST request, or the exception
\* request.json() throws.
SplitPayload(r) ==
  IF r.contentType = "application/json"
  THEN LET jsonBody == JSON_parse(r.body)
       IN  IF IsThrow(jsonBody) THEN jsonBody
           ELSE IF jsonBody.k = "array"
                THEN [k |-> "bodies",
                      seq |-> [i \in 1..Len(jsonBody.elems) |-> JSON_stringify(jsonBody.elems[i])]]
                ELSE [k |-> "bodies", seq |-> <<JSON_stringify(jsonBody)>>]
  ELSE [k |-> "bodies", seq |-> <<r.body>>]

\* cache.match(cacheKey) followed by response?.text(): the body stored under
\* the key, undefined when the store holds no entry.
cacheMatch(store, cacheKey) ==
  IF \E e \in store : e.key = cacheKey /\ e.ttl > 0
  THEN (CHOOSE e \in store : e.key = cacheKey /\ e.ttl > 0).body
  ELSE Undefined

\* The `cached` flag of a lookup: !!responseBody.
IsCached(responseBody) == Truthy(responseBody)

\* One callback of the lookup fan-out: the entry recorded for call `index`.
LookupResult(r, body, index, store) ==
  LET cacheKey == cacheKeyForRequestAndBody(r, body)
  IN  IF IsThrow(cacheKey) THEN cacheKey
      ELSE LET responseBody == cacheMatch(store, cacheKey)
           IN  [k |-> "entry", body |-> body, index |-> index,
                response |-> responseBody, cached |-> IsCached(responseBody)]

\* A filter that takes an entry for a miss only when it has no response at all.
UncachedOfUndefined(entries) == SelectSeq(entries, LAMBDA b : b.response.k = "undefined")

\* A filter that lets every entry through.
UncachedOfAll(entries) == entries

\* bodiesWithResponses.filter((b) => !b.cached)
UncachedOf(entries) == SelectSeq(entries, LAMBDA b : ~b.cached)

\* A dispatch that re-batches a single miss too.
IsBatchedDispatchFromOne(n) == n > 0

\* uncachedBodies.length > 1: the misses are sent as one re-batched array.
IsBatchedDispatch(n) == n > 1

\* The body of the request sent to the origin for the misses.
UpstreamBody(uncached) ==
  IF IsBatchedDispatch(Len(uncached))
  THEN JSON_stringify(JArr([q \in 1..Len(uncached) |-> JSON_parse(uncached[q].body)]))
  ELSE IF Truthy(uncached[1].body) THEN uncached[1].body ELSE Undefined

UpstreamRequest(r, uncached) ==
  [k |-> "fetch", method |-> r.method, body |-> UpstreamBody(uncached)]

\* A validation that rejects only arrays with too few results.
ParseUpstreamAtLeast(n, a) ==
  IF a.k = "networkerror" THEN Throw("fetch failed")
  ELSE IF IsBatchedDispatch(n)
  THEN LET parsed == JSON_parse(a.body)
       IN  IF IsThrow(parsed) THEN parsed
           ELSE IF parsed.k # "array"
                THEN Throw("Batched responses should be an array of responses.")
           ELSE IF n > Len(parsed.elems)
                THEN Throw("Batched responses do not matched uncached requests.")
           ELSE [k |-> "results", seq |-> parsed.elems]
  ELSE IF a.contentType = "text/html" THEN [k |-> "html"]
  ELSE LET parsed == JSON_parse(a.body)
       IN  IF IsThrow(parsed) THEN parsed ELSE [k |-> "results", seq |-> <<parsed>>]

\* What the handler makes of the origin's answer to n misses: an exception, the
\* HTML short-circuit, or the results, one per miss.
ParseUpstream(n, a) ==
  IF a.k = "networkerror" THEN Throw("fetch failed")
  ELSE IF IsBatchedDispatch(n)
  THEN LET parsed == JSON_parse(a.body)
       IN  IF IsThrow(parsed) THEN parsed
           ELSE IF parsed.k # "array"
                THEN Throw("Batched responses should be an array of responses.")
           ELSE IF n # Len(parsed.elems)
                THEN Throw("Batched responses do not matched uncached requests.")
           ELSE [k |-> "results", seq |-> parsed.elems]
  ELSE IF a.contentType = "text/html" THEN [k |-> "html"]
  ELSE LET parsed == JSON_parse(a.body)
       IN  IF IsThrow(parsed) THEN parsed ELSE [k |-> "results", seq |-> <<parsed>>]

\* A backfill that writes to the position among the misses.
BackfillSlotByPosition(miss, queryIndex) == queryIndex

\* The slot of bodiesWithResponses that the result at position queryIndex of
\* the misses is written to: the miss's own index.
BackfillSlot(miss, queryIndex) == miss.index + 1

\* bodiesWithResponses[index].response = responseBody, for the misses q..n.
RECURSIVE Backfill(_, _, _, _)
Backfill(entries, uncached, results, q) ==
  IF q > Len(uncached) THEN entries
  ELSE Backfill([entries EXCEPT ![BackfillSlot(uncached[q], q)].response =
                                   JSON_stringify(results[q])],
                uncached, results, q + 1)

\* A write-back that derives the key once, from the first miss.
WriteBacksUnderFirstKey(r, uncached, results) ==
  {[key |-> cacheKeyForRequestAndBody(r, uncached[1].body),
    body |-> JSON_stringify(results[q]),
    index |-> uncached[q].index,
    ttl |-> CACHE_SECONDS] : q \in 1..Len(uncached)}

\* The cache.put calls of the write-back, one per miss.
WriteBacks(r, uncached, results) ==
  {[key |-> cacheKeyForRequestAndBody(r, uncached[q].body),
    body |-> JSON_stringify(results[q]),
    index |-> uncached[q].index,
    ttl |-> CACHE_SECONDS] : q \in 1..Len(uncached)}

\* An entry that is kept a second longer than CACHE_SECONDS.
StoredForLonger(w) == [key |-> w.key, body |-> w.body, ttl |-> w.ttl + 1]

\* The entry a cache.put stores: the key, the body and the time it is kept.
Stored(w) == [key |-> w.key, body |-> w.body, ttl |-> w.ttl]

\* An element that is handed out with the `id` the key derivation uses.
BatchElementNormalized(responseBody) ==
  IF Truthy(responseBody)
  THEN LET parsed == JSON_parse(responseBody)
       IN  IF IsThrow(parsed) \/ parsed.k # "object" \/ ~parsed.hasId THEN parsed
           ELSE [parsed EXCEPT !.id = -1]
  ELSE IF responseBody.k = "empty" THEN JStr ELSE JNull

\* An element of the batch response body: response && JSON.parse(response).
BatchElement(responseBody) ==
  IF Truthy(responseBody) THEN JSON_parse(responseBody)
  ELSE IF responseBody.k = "empty" THEN JStr ELSE JNull

\* The indices of the entries flagged cached.
CachedIndices(entries) ==
  LET hits == SelectSeq(entries, LAMBDA b : b.cached)
  IN  [i \in 1..Len(hits) |-> hits[i].index]

\* Response assembly: the sole entry's response for one entry, the array of the
\* parsed responses otherwise.
Assemble(entries, origin) ==
  IF Len(entries) = 1
  THEN Response("assembled", 200, entries[1].response,
                ("Content-Type" :> "application/json")
                  @@ ("Cached" :> [k |-> "bool", v |-> entries[1].cached])
                  @@ CorsHeader(origin))
  ELSE LET elems == [i \in 1..Len(entries) |-> BatchElement(entries[i].response)]
       IN  IF \E i \in 1..Len(entries) : IsThrow(elems[i])
           THEN Throw("SyntaxError")
           ELSE Response("assembled", 200, JSON_stringify(JArr(elems)),
                         ("Content-Type" :> "application/json")
                           @@ ("Cached" :> [k |-> "list", v |-> CachedIndices(entries)])
                           @@ CorsHeader(origin))

\* A catch that answers with an error status.
CaughtAsServerError(x) ==
  IF IsThrow(x) THEN [Diagnostic(x.message) EXCEPT !.status = 500] ELSE x

\* The top-level catch: an exception becomes the diagnostic response.
Caught(x) == IF IsThrow(x) THEN Diagnostic(x.message) ELSE x

NoBody == [k |-> "nobody"]

\* The OPTIONS branch.
Preflight(r) ==
  IF r.origin # "" /\ r.acrm /\ r.acrh # "" /\ OriginAllowed(r.origin)
  THEN Response("preflight", 200, NoBody,
                ("Access-Control-Allow-Origin" :> r.origin)
                  @@ ("Access-Control-Allow-Methods" :> "GET,HEAD,POST,OPTIONS")
                  @@ ("Access-Control-Max-Age" :> "86400")
                  @@ ("Access-Control-Allow-Headers" :> r.acrh))
  ELSE Response("options", 200, NoBody, "Allow" :> "GET, HEAD, POST, OPTIONS")

\* ------------------------------------------------------------------------
\* State
\* ------------------------------------------------------------------------
VARIABLES
  pc,                  \* where each invocation of fetch stands
  request,             \* the request an invocation serves
  bodies,              \* its call bodies, in payload order
  lookups,             \* the lookup callbacks that have returned, by position
  bodiesWithResponses, \* the entries, once every lookup has returned
  uncachedBodies,      \* the entries that missed, in order
  originRequests,      \* the requests the invocation has sent to the origin
  uncachedResponse,    \* the origin's answer
  uncachedResponses,   \* the results read out of the answer, one per miss
  issued,              \* the cache.put calls the invocation has made
  puts,                \* the entries of those calls that have not settled yet
  response,            \* the response returned to the caller
  cache                \* caches.default: entries [key, body, ttl]

vars == <<pc, request, bodies, lookups, bodiesWithResponses, uncachedBodies,
          originRequests, uncachedResponse, uncachedResponses, issued, puts,
          response, cache>>

None == [k |-> "none"]

\* The locals of an invocation that serves no request.
Fresh ==
  [request |-> None, bodies |-> <<>>, lookups |-> <<>>, bodiesWithResponses |-> <<>>,
   uncachedBodies |-> <<>>, originRequests |-> <<>>, uncachedResponse |-> None,
   uncachedResponses |-> <<>>, issued |-> {}, puts |-> {}, response |-> None]

\* The locals of invocation p.
Locals(p) ==
  [request |-> request[p], bodies |-> bodies[p], lookups |-> lookups[p],
   bodiesWithResponses |-> bodiesWithResponses[p], uncachedBodies |-> uncachedBodies[p],
   originRequests |-> originRequests[p], uncachedResponse |-> uncachedResponse[p],
   uncachedResponses |-> uncachedResponses[p], issued |-> issued[p], puts |-> puts[p],
   response |-> response[p]]

\* Invocation p moves to `at` with locals l.
Step(p, at, l) ==
  /\ pc' = [pc EXCEPT ![p] = at]
  /\ request' = [request EXCEPT ![p] = l.request]
  /\ bodies' = [bodies EXCEPT ![p] = l.bodies]
  /\ lookups' = [lookups EXCEPT ![p] = l.lookups]
  /\ bodiesWithResponses' = [bodiesWithResponses EXCEPT ![p] = l.bodiesWithResponses]
  /\ uncachedBodies' = [uncachedBodies EXCEPT ![p] = l.uncachedBodies]
  /\ originRequests' = [originRequests EXCEPT ![p] = l.originRequests]
  /\ uncachedResponse' = [uncachedResponse EXCEPT ![p] = l.uncachedResponse]
  /\ uncachedResponses' = [uncachedResponses EXCEPT ![p] = l.uncachedResponses]
  /\ issued' = [issued EXCEPT ![p] = l.issued]
  /\ puts' = [puts EXCEPT ![p] = l.puts]
  /\ response' = [response EXCEPT ![p] = l.response]

\* One invocation serves the requests, one after another.
Init ==
  /\ pc = [p \in Instances |-> IF p = "w1" THEN "idle" ELSE "off"]
  /\ request = [p \in Instances |-> Fresh.request]
  /\ bodies = [p \in Instances |-> Fresh.bodies]
  /\ lookups = [p \in Instances |-> Fresh.lookups]
  /\ bodiesWithResponses = [p \in Instances |-> Fresh.bodiesWithResponses]
  /\ uncachedBodies = [p \in Instances |-> Fresh.uncachedBodies]
  /\ originRequests = [p \in Instances |-> Fresh.originRequests]
  /\ uncachedResponse = [p \in Instances |-> Fresh.uncachedResponse]
  /\ uncachedResponses = [p \in Instances |-> Fresh.uncachedResponses]
  /\ issued = [p \in Instances |-> Fresh.issued]
  /\ puts = [p \in Instances |-> Fresh.puts]
  /\ response = [p \in Instances |-> Fresh.response]
  /\ cache = {}

\* ------------------------------------------------------------------------
\* Actions
\* ------------------------------------------------------------------------
\* fetch(request) up to its first suspension: dispatch on the method and, for
\* GET/POST, split the payload.
FetchStart(p, r) ==
  /\ pc[p] = "idle"
  /\ UNCHANGED cache
  /\ LET l == [Fresh EXCEPT !.request = r]
     IN  IF r.method \in {"GET", "POST"}
         THEN LET split == SplitPayload(r)
              IN  IF IsThrow(split)
                  THEN Step(p, "done", [l EXCEPT !.response = Caught(split)])
                  ELSE Step(p, "lookup", [l EXCEPT !.bodies = split.seq])
         ELSE IF r.method = "OPTIONS"
         THEN Step(p, "done", [l EXCEPT !.response = Preflight(r)])
         ELSE Step(p, "passthrough",
                   [l EXCEPT !.originRequests =
                               <<[k |-> "fetch", method |-> r.method, body |-> r.body]>>])

\* A lookup that takes the entry it finds out of the store.
CacheLookupTaking(p, i) ==
  /\ pc[p] = "lookup"
  /\ i \in (1..Len(bodies[p])) \ DOMAIN lookups[p]
  /\ LET entry == LookupResult(request[p], bodies[p][i], i - 1, cache)
     IN  IF IsThrow(entry)
         THEN /\ UNCHANGED cache
              /\ Step(p, "done", [Locals(p) EXCEPT !.response = Caught(entry)])
         ELSE /\ cache' = {e \in cache :
                             e.key # cacheKeyForRequestAndBody(request[p], bodies[p][i])}
              /\ Step(p, "lookup", [Locals(p) EXCEPT !.lookups = (i :> entry) @@ @])

\* One lookup callback returns: the key is derived and the store is asked.
CacheLookup(p, i) ==
  /\ pc[p] = "lookup"
  /\ i \in (1..Len(bodies[p])) \ DOMAIN lookups[p]
  /\ UNCHANGED cache
  /\ LET entry == LookupResult(request[p], bodies[p][i], i - 1, cache)
     IN  IF IsThrow(entry)
         THEN Step(p, "done", [Locals(p) EXCEPT !.response = Caught(entry)])
         ELSE Step(p, "lookup", [Locals(p) EXCEPT !.lookups = (i :> entry) @@ @])

\* A dispatch that goes ahead once the first lookup has returned and takes the
\* calls whose lookup is still pending for misses.
DispatchOnFirst(p) ==
  /\ pc[p] = "lookup"
  /\ DOMAIN lookups[p] # {} \/ bodies[p] = <<>>
  /\ UNCHANGED cache
  /\ LET entries  == [i \in 1..Len(bodies[p]) |->
                       IF i \in DOMAIN lookups[p] THEN lookups[p][i]
                       ELSE [k |-> "entry", body |-> bodies[p][i], index |-> i - 1,
                             response |-> Undefined, cached |-> FALSE]]
         uncached == UncachedOf(entries)
         l        == [Locals(p) EXCEPT !.bodiesWithResponses = entries,
                                       !.uncachedBodies = uncached]
     IN  IF Len(uncached) > 0
         THEN Step(p, "upstream",
                   [l EXCEPT !.originRequests = <<UpstreamRequest(request[p], uncached)>>])
         ELSE Step(p, "done",
                   [l EXCEPT !.response = Caught(Assemble(entries, request[p].origin))])

\* Every lookup has returned: the misses are filtered out and sent to the
\* origin; with no miss the response is assembled at once.
Dispatch(p) ==
  /\ pc[p] = "lookup"
  /\ DOMAIN lookups[p] = 1..Len(bodies[p])
  /\ UNCHANGED cache
  /\ LET entries  == [i \in 1..Len(bodies[p]) |-> lookups[p][i]]
         uncached == UncachedOf(entries)
         l        == [Locals(p) EXCEPT !.bodiesWithResponses = entries,
                                       !.uncachedBodies = uncached]
     IN  IF Len(uncached) > 0
         THEN Step(p, "upstream",
                   [l EXCEPT !.originRequests = <<UpstreamRequest(request[p], uncached)>>])
         ELSE Step(p, "done",
                   [l EXCEPT !.response = Caught(Assemble(entries, request[p].origin))])

\* The origin answers the misses: validation, write-back, backfill, assembly.
OriginRespond(p) ==
  /\ pc[p] = "upstream"
  /\ UNCHANGED cache
  /\ \E a \in OriginAnswers([q \in 1..Len(uncachedBodies[p]) |->
                               RpcOf(uncachedBodies[p][q].body)]) :
       LET uncached == uncachedBodies[p]
           parsed   == ParseUpstream(Len(uncached), a)
           l        == [Locals(p) EXCEPT !.uncachedResponse = a]
       IN  IF IsThrow(parsed)
           THEN Step(p, "done", [l EXCEPT !.response = Caught(parsed)])
           ELSE IF parsed.k = "html"
           THEN Step(p, "done",
                     [l EXCEPT !.response = Response("verbatim", a.status, a.body,
                                                     "Content-Type" :> a.contentType)])
           ELSE LET writes  == WriteBacks(request[p], uncached, parsed.seq)
                    entries == Backfill(bodiesWithResponses[p], uncached, parsed.seq, 1)
                IN  Step(p, "done",
                         [l EXCEPT !.uncachedResponses = parsed.seq,
                                   !.issued = writes,
                                   !.puts = {Stored(w) : w \in writes},
                                   !.bodiesWithResponses = entries,
                                   !.response =
                                     Caught(Assemble(entries, request[p].origin))])

\* The origin answers a request of another method, which is passed through.
PassthroughRespond(p, a) ==
  /\ pc[p] = "passthrough"
  /\ UNCHANGED cache
  /\ LET l == [Locals(p) EXCEPT !.uncachedResponse = a]
     IN  IF a.k = "networkerror"
         THEN Step(p, "done", [l EXCEPT !.response = Diagnostic("fetch failed")])
         ELSE Step(p, "done",
                   [l EXCEPT !.response = Response("verbatim", a.status, a.body,
                                                   "Content-Type" :> a.contentType)])

\* A cache.put handed to ctx.waitUntil completes: the entry replaces the one
\* stored under its key.
CachePutComplete(p) ==
  \E w \in puts[p] :
    /\ Cardinality({e \in cache : e.key # w.key}) < MaxCache
    /\ cache' = {e \in cache : e.key # w.key} \cup {w}
    /\ Step(p, pc[p], [Locals(p) EXCEPT !.puts = @ \ {w}])

\* A cache.put whose failure reaches the caller as the error response.
CachePutFailObserved(p) ==
  \E w \in puts[p] :
    /\ UNCHANGED cache
    /\ Step(p, pc[p], [Locals(p) EXCEPT !.puts = @ \ {w},
                                        !.response = Diagnostic("cache.put failed")])

\* A cache.put fails, or is dropped with the invocation: nobody observes it.
CachePutFail(p) ==
  \E w \in puts[p] :
    /\ UNCHANGED cache
    /\ Step(p, pc[p], [Locals(p) EXCEPT !.puts = @ \ {w}])

\* A second passes: entries whose s-maxage has run out are no longer matched.
Tick ==
  /\ cache # {}
  /\ cache' = {[e EXCEPT !.ttl = @ - 1] : e \in {x \in cache : x.ttl > 1}}
  /\ UNCHANGED <<pc, request, bodies, lookups, bodiesWithResponses, uncachedBodies,
                 originRequests, uncachedResponse, uncachedResponses, issued, puts,
                 response>>

\* The key of a request without a body is the request's own URL: the zone's
\* cache may hold the origin's response to that URL, whose body may be empty.
ZoneCachePut ==
  /\ LET key == cacheKeyForRequestAndBody(Req("GET", "", EmptyText, "", FALSE, ""), EmptyText)
     IN  /\ \A e \in cache : e.key # key
         /\ Cardinality(cache) < MaxCache
         /\ cache' = cache \cup {[key |-> key, body |-> EmptyText, ttl |-> CACHE_SECONDS]}
  /\ UNCHANGED <<pc, request, bodies, lookups, bodiesWithResponses, uncachedBodies,
                 originRequests, uncachedResponse, uncachedResponses, issued, puts,
                 response>>

\* The response has been returned and the cache.put calls have settled: the
\* invocation ends and the instance takes the next request.
Finish(p) ==
  /\ pc[p] = "done"
  /\ puts[p] = {}
  /\ UNCHANGED cache
  /\ Step(p, "idle", Fresh)

Next ==
  \/ \E p \in Instances, r \in Requests : FetchStart(p, r)
  \/ \E p \in Instances, i \in 1..MaxBatch : CacheLookup(p, i)
  \/ \E p \in Instances : Dispatch(p)
  \/ \E p \in Instances : OriginRespond(p)
  \/ \E p \in Instances :
       \E a \in {NetworkError, OriginAnswer(200, "text/html", HtmlPage)} :
         PassthroughRespond(p, a)
  \/ \E p \in Instances : CachePutComplete(p)
  \/ \E p \in Instances : CachePutFail(p)
  \/ Tick
  \/ ZoneCachePut
  \/ \E p \in Instances : Finish(p)

Spec == Init /\ [][Next]_vars

\* ------------------------------------------------------------------------
\* Concurrent invocations on one cache
\* ------------------------------------------------------------------------
\* The requests of the concurrent invocations: a batch, and a single call that
\* is the batch's first call under another id and from another origin.
SharedRequests ==
  {Req("POST", "application/json",
       JsonText(JArr(<<Call(1, "a"), Notification("b")>>), FALSE), AppOrigin, FALSE, ""),
   Req("POST", "application/json", JsonText(Call(2, "a"), FALSE), EvilOrigin, FALSE, "")}

\* Invocation "w1" serves the batch, over and over, and "w2" the single call.
Serves(p, r) == (p = "w1") = (r.body.v.k = "array")

\* One invocation or two are in flight on the same cache.
InitShared ==
  /\ pc \in {[p \in Instances |-> IF p = "w1" THEN "idle" ELSE at] : at \in {"idle", "off"}}
  /\ request = [p \in Instances |-> Fresh.request]
  /\ bodies = [p \in Instances |-> Fresh.bodies]
  /\ lookups = [p \in Instances |-> Fresh.lookups]
  /\ bodiesWithResponses = [p \in Instances |-> Fresh.bodiesWithResponses]
  /\ uncachedBodies = [p \in Instances |-> Fresh.uncachedBodies]
  /\ originRequests = [p \in Instances |-> Fresh.originRequests]
  /\ uncachedResponse = [p \in Instances |-> Fresh.uncachedResponse]
  /\ uncachedResponses = [p \in Instances |-> Fresh.uncachedResponses]
  /\ issued = [p \in Instances |-> Fresh.issued]
  /\ puts = [p \in Instances |-> Fresh.puts]
  /\ response = [p \in Instances |-> Fresh.response]
  /\ cache = {}

\* A second passes in a store that keeps an entry whose s-maxage has run out
\* for one more second as a stale entry, which cache.match does not return.
Expire ==
  /\ cache # {}
  /\ cache' = {[e EXCEPT !.ttl = @ - 1] : e \in {x \in cache : x.ttl > 0}}
  /\ UNCHANGED <<pc, request, bodies, lookups, bodiesWithResponses, uncachedBodies,
                 originRequests, uncachedResponse, uncachedResponses, issued, puts,
                 response>>

\* fetch(request) on one of the concurrent invocations.
FetchShared(p, r) == Serves(p, r) /\ FetchStart(p, r)

NextShared ==
  \/ \E p \in Instances, r \in SharedRequests : FetchShared(p, r)
  \/ \E p \in Instances, i \in 1..MaxBatch : CacheLookup(p, i)
  \/ \E p \in Instances : Dispatch(p)
  \/ \E p \in Instances : OriginRespond(p)
  \/ \E p \in Instances : CachePutComplete(p)
  \/ \E p \in Instances : CachePutFail(p)
  \/ Expire
  \/ \E p \in Instances : Finish(p)

SpecShared == InitShared /\ [][NextShared]_vars

\* ------------------------------------------------------------------------
\* Notions the properties are stated with
\* ------------------------------------------------------------------------
Ids == {1, 2}

\* Invocation p serves a GET/POST request whose payload was split and whose
\* lookups have all returned.
Resolved(p) ==
  /\ pc[p] \in {"upstream", "done"}
  /\ request[p].method \in {"GET", "POST"}
  /\ ~IsThrow(SplitPayload(request[p]))
  /\ DOMAIN lookups[p] = 1..Len(bodies[p])

\* Invocation p has returned an assembled response.
Assembled(p) == pc[p] = "done" /\ response[p].kind = "assembled"

\* The entries as the lookups recorded them, before any backfill.
LookupSeq(p) == [i \in 1..Len(bodies[p]) |-> lookups[p][i]]

MissesAtLookup(p) == SelectSeq(LookupSeq(p), LAMBDA e : ~e.cached)

HitsAtLookup(p) == SelectSeq(LookupSeq(p), LAMBDA e : e.cached)

\* The position of call i among the misses, in order.
MissPosition(p, i) == Cardinality({j \in 1..i : ~lookups[p][j].cached})

\* The inbound payload of r is a JSON array.
IsBatchPayload(r) ==
  r.contentType = "application/json" /\ r.body.k = "json" /\ r.body.v.k = "array"

Range(f) == {f[x] : x \in DOMAIN f}

\* ------------------------------------------------------------------------
\* Properties
\* ------------------------------------------------------------------------
\* C1 (as claimed): an assembled response has the shape of the inbound payload:
\* the one result's text, unwrapped, for a single call; a JSON array of exactly
\* N elements for a JSON array of N calls, N = 0 and N = 1 included.
ShapePreservation ==
  \A p \in Instances :
    Assembled(p) =>
      IF IsBatchPayload(request[p])
      THEN /\ response[p].body.k = "json"
           /\ response[p].body.v.k = "array"
           /\ Len(response[p].body.v.elems) = Len(request[p].body.v.elems)
      ELSE response[p].body = bodiesWithResponses[p][1].response

\* The text of the result that belongs to call i: the body found in the cache
\* for a hit, the origin's result at the call's position among the misses
\* otherwise.
ExpectedText(p, i) ==
  IF lookups[p][i].cached
  THEN lookups[p][i].response
  ELSE JSON_stringify(uncachedResponses[p][MissPosition(p, i)])

\* C2: in an assembled response the result carried for call i is the body the
\* cache held for call i when i was a hit, and otherwise the origin's result at
\* the position call i has among the misses; entries stay in payload order.
\* (A request of one call carries its result as the whole body.)
ReassemblyByIndex ==
  \A p \in Instances :
    Assembled(p) =>
      /\ Len(bodiesWithResponses[p]) = Len(bodies[p])
      /\ \A i \in 1..Len(bodies[p]) :
           /\ bodiesWithResponses[p][i].index = i - 1
           /\ bodiesWithResponses[p][i].body = bodies[p][i]
           /\ bodiesWithResponses[p][i].response = ExpectedText(p, i)
      /\ IF Len(bodies[p]) = 1
         THEN response[p].body = ExpectedText(p, 1)
         ELSE /\ response[p].body.k = "json"
              /\ response[p].body.v.k = "array"
              /\ response[p].body.v.elems =
                   [i \in 1..Len(bodies[p]) |-> JSON_parse(ExpectedText(p, i))]

\* C2 witness: a batch of three with a hit ahead of two misses was assembled.
ReassemblyByIndexWitness ==
  \E p \in Instances :
    /\ Assembled(p)
    /\ Len(bodies[p]) = 3
    /\ lookups[p][1].cached
    /\ ~lookups[p][2].cached
    /\ ~lookups[p][3].cached

\* C3: once the lookups have all returned, the hits and the misses partition
\* the calls: their counts add up to the number of calls, no index is in both
\* or twice in one, and together they are the indices 0..N-1.
PartitionComplete ==
  \A p \in Instances :
    Resolved(p) =>
      LET n      == Len(bodies[p])
          hits   == CachedIndices(bodiesWithResponses[p])
          misses == [q \in 1..Len(uncachedBodies[p]) |-> uncachedBodies[p][q].index]
      IN  /\ Len(bodiesWithResponses[p]) = n
          /\ Len(hits) + Len(misses) = n
          /\ Cardinality(Range(hits)) = Len(hits)
          /\ Cardinality(Range(misses)) = Len(misses)
          /\ Range(hits) \cap Range(misses) = {}
          /\ Range(hits) \cup Range(misses) = 0..(n - 1)

\* C3 witness: a batch of three resolved into both hits and misses.
PartitionCompleteWitness ==
  \E p \in Instances :
    /\ Resolved(p)
    /\ Len(bodies[p]) = 3
    /\ Len(uncachedBodies[p]) \in {1, 2}

\* The call bodies an origin request carries.
CarriedTexts(f) ==
  IF f.body.k = "undefined" THEN <<EmptyText>>
  ELSE IF f.body.k = "json" /\ ~f.body.lead /\ f.body.v.k = "array"
  THEN [q \in 1..Len(f.body.v.elems) |-> JSON_stringify(f.body.v.elems[q])]
  ELSE <<f.body>>

SingleMissDispatch ==
  \A p \in Instances :
    (Resolved(p) /\ MissesAtLookup(p) # <<>>) =>
      LET misses == MissesAtLookup(p)
          sent   == originRequests[p][1].body
      IN  IF Len(misses) = 1
          THEN /\ sent = IF misses[1].body = EmptyText THEN Undefined ELSE misses[1].body
               /\ Assembled(p) =>
                    uncachedResponses[p] = <<JSON_parse(uncachedResponse[p].body)>>
          ELSE /\ sent.k = "json"
               /\ sent.v.k = "array"
               /\ Len(sent.v.elems) = Len(misses)
               /\ Assembled(p) =>
                    uncachedResponses[p] = JSON_parse(uncachedResponse[p].body).elems

\* C5 witness: a batch of three with two hits was assembled after its one miss
\* was answered.
SingleMissDispatchWitness ==
  \E p \in Instances :
    /\ Assembled(p)
    /\ Len(bodies[p]) = 3
    /\ Len(HitsAtLookup(p)) = 2
    /\ Len(uncachedResponses[p]) = 1

\* The origin answered two or more misses with JSON that is no array of as many
\* results.
Mismatch(p) ==
  /\ pc[p] = "done"
  /\ Resolved(p)
  /\ Len(MissesAtLookup(p)) >= 2
  /\ uncachedResponse[p].k = "answer"
  /\ uncachedResponse[p].body.k = "json"
  /\ \/ uncachedResponse[p].body.v.k # "array"
     \/ Len(uncachedResponse[p].body.v.elems) # Len(MissesAtLookup(p))

\* C6: when the origin answers two or more misses with something that is not an
\* array, or with an array of another length, the request ends with the error
\* and has issued no cache write.
MismatchFailsWithoutWrites ==
  \A p \in Instances :
    Mismatch(p) =>
      /\ response[p].kind = "diagnostic"
      /\ response[p].body.message \in
           {"Batched responses should be an array of responses.",
            "Batched responses do not matched uncached requests."}
      /\ issued[p] = {}
      /\ puts[p] = {}

\* C6 witness: the origin answered two misses with three results.
MismatchFailsWithoutWritesWitness ==
  \E p \in Instances :
    /\ Mismatch(p)
    /\ uncachedResponse[p].body.v.k = "array"
    /\ Len(uncachedResponse[p].body.v.elems) = Len(MissesAtLookup(p)) + 1

\* C7 (as claimed): when the origin answers the misses with a status outside
\* 200..299, the request ends with the error response and issues no cache
\* write.
UpstreamNon2xxFails ==
  \A p \in Instances :
    (/\ pc[p] = "done"
     /\ Resolved(p)
     /\ uncachedResponse[p].k = "answer"
     /\ uncachedResponse[p].status \notin 200..299) =>
      /\ response[p].kind = "diagnostic"
      /\ issued[p] = {}

\* The inbound body does not parse: as JSON under the JSON content type, or in
\* the key derivation when it starts with '{'.
InboundParseFails(r) ==
  IF r.contentType = "application/json"
  THEN r.body.k # "json"
  ELSE startsWithBrace(r.body) /\ r.body.k # "json"

\* The call to the origin failed: no answer, or an answer that is not JSON
\* (other than the HTML page returned for a single miss).
UpstreamCallFails(p) ==
  \/ uncachedResponse[p].k = "networkerror"
  \/ /\ uncachedResponse[p].k = "answer"
     /\ uncachedResponse[p].body.k # "json"
     /\ ~(Len(MissesAtLookup(p)) = 1 /\ uncachedResponse[p].contentType = "text/html")

IdVariants(t) ==
  IF t.k = "json" /\ t.v.k = "object" /\ t.v.hasId
  THEN {[t EXCEPT !.v.id = j] : j \in Ids}
  ELSE {t}

\* C9 (as claimed): two call bodies that are the same JSON object but for the
\* value of `id` have the same cache key, whichever way the body came in.
KeyIgnoresId ==
  \A p \in Instances :
    pc[p] \in {"lookup", "upstream", "done"} =>
      \A i \in 1..Len(bodies[p]) :
        \A t \in IdVariants(bodies[p][i]) :
          cacheKeyForRequestAndBody(request[p], t) =
            cacheKeyForRequestAndBody(request[p], bodies[p][i])

\* C10 (as claimed): a lookup is a miss only when the store returned no entry;
\* an entry with an empty body is a hit.
MissMeansAbsent ==
  \A p \in Instances :
    \A i \in DOMAIN lookups[p] :
      lookups[p][i].cached = (lookups[p][i].response.k # "undefined")

\* C11 (as claimed): the Cached header of an assembled response reports the
\* hits recorded at lookup and nothing else: for a single (non-array) call the
\* boolean that is true exactly when the call was a hit at lookup, for a batch
\* the list of the indices that were hits at lookup, ascending; a miss filled
\* with the origin's result is not reported.
CachedReportsLookupHits ==
  \A p \in Instances :
    Assembled(p) =>
      LET reported == response[p].headers["Cached"]
          hits     == HitsAtLookup(p)
      IN  IF IsBatchPayload(request[p])
          THEN /\ reported.k = "list"
               /\ reported.v = [i \in 1..Len(hits) |-> hits[i].index]
               /\ \A i \in 1..Len(hits), j \in 1..Len(hits) :
                    i < j => hits[i].index < hits[j].index
          ELSE /\ reported.k = "bool"
               /\ reported.v = lookups[p][1].cached

\* The media type of a content-type header value is text/html.
IsHtmlContentType(contentType) == contentType \in {"text/html", HtmlWithCharset}

\* Invocation p sent one single (non-array) call that missed to the origin and
\* the origin answered with an HTML content type.
HtmlAnswerToSoleCall(p) ==
  /\ pc[p] = "done"
  /\ Resolved(p)
  /\ ~IsBatchPayload(request[p])
  /\ MissesAtLookup(p) # <<>>
  /\ uncachedResponse[p].k = "answer"
  /\ IsHtmlContentType(uncachedResponse[p].contentType)

\* C12 (as claimed): when a single non-batch call misses and the origin answers
\* with an HTML content type, the caller gets the origin's response verbatim
\* (status, body, content type), without a Cached header; no cache write is
\* issued, so the page is not stored and not served as a hit later.
HtmlShortCircuit ==
  \A p \in Instances :
    HtmlAnswerToSoleCall(p) =>
      /\ response[p].kind = "verbatim"
      /\ response[p].status = uncachedResponse[p].status
      /\ response[p].body = uncachedResponse[p].body
      /\ response[p].headers["Content-Type"] = uncachedResponse[p].contentType
      /\ "Cached" \notin DOMAIN response[p].headers
      /\ issued[p] = {}
      /\ puts[p] = {}

\* C13: the response is produced when the cache.put calls are issued, not when
\* they settle: while a put of invocation p is pending, p has already returned
\* its response, and no step taken then (a put completing, a put failing or
\* being dropped, time passing) changes that response.
PutOutcomeUnobserved ==
  [][\A p \in Instances :
       puts[p] # {} =>
         /\ pc[p] = "done"
         /\ response[p].k = "response"
         /\ pc'[p] = "done"
         /\ response'[p] = response[p]]_vars

\* C13 witness: a response was assembled, one of its two cache.put calls has
\* settled and the other is still pending.
PutOutcomeUnobservedWitness ==
  \E p \in Instances :
    /\ Assembled(p)
    /\ \E w \in issued[p], x \in issued[p] : w.key # x.key
    /\ Cardinality(puts[p]) = 1

CorsGating ==
  \A p \in Instances :
    (pc[p] = "done" /\ request[p].method \in {"GET", "POST"}) =>
      LET headers == response[p].headers
      IN  /\ ("Access-Control-Allow-Origin" \in DOMAIN headers)
               = OriginAllowed(request[p].origin)
          /\ "Access-Control-Allow-Origin" \in DOMAIN headers =>
               headers["Access-Control-Allow-Origin"] = request[p].origin

\* C16 (as claimed): an OPTIONS request is granted CORS (the caller's origin,
\* the methods GET,HEAD,POST,OPTIONS, the requested headers echoed, max-age
\* 86400) exactly when Origin, Access-Control-Request-Method and
\* Access-Control-Request-Headers are present and the origin is allowed; in
\* every other case the response has no body, the Allow header alone and a
\* status that is no error.
PreflightDecision ==
  \A p \in Instances :
    (pc[p] = "done" /\ request[p].method = "OPTIONS") =>
      LET r == request[p]
      IN  IF r.origin # "" /\ r.acrm /\ r.hasAcrh /\ OriginAllowed(r.origin)
          THEN /\ response[p].body = NoBody
               /\ response[p].status \in 200..299
               /\ response[p].headers =
                    ("Access-Control-Allow-Origin" :> r.origin)
                      @@ ("Access-Control-Allow-Methods" :> "GET,HEAD,POST,OPTIONS")
                      @@ ("Access-Control-Max-Age" :> "86400")
                      @@ ("Access-Control-Allow-Headers" :> r.acrh)
          ELSE /\ response[p].body = NoBody
               /\ response[p].status \in 200..299
               /\ DOMAIN response[p].headers = {"Allow"}
               /\ response[p].headers["Allow"] = "GET, HEAD, POST, OPTIONS"

\* The lookups of invocation p have all returned.
AllReturned(p) == DOMAIN lookups[p] = 1..Len(bodies[p])

\* C17: within a GET/POST request, as long as a lookup is pending no origin
\* request has been sent, no partition into hits and misses exists and no
\* response has been assembled or passed on; once the origin has been called or
\* a response assembled, every call has its lookup result, in payload order,
\* and the misses sent are filtered out of all of them.
JoinBeforeDispatch ==
  \A p \in Instances :
    (pc[p] \in {"lookup", "upstream", "done"} /\ request[p].method \in {"GET", "POST"}) =>
      /\ ~AllReturned(p) =>
           /\ originRequests[p] = <<>>
           /\ bodiesWithResponses[p] = <<>>
           /\ uncachedBodies[p] = <<>>
           /\ response[p] = None \/ response[p].kind = "diagnostic"
      /\ (originRequests[p] # <<>> \/ Assembled(p)) =>
           /\ AllReturned(p)
           /\ Len(bodiesWithResponses[p]) = Len(bodies[p])
           /\ \A i \in 1..Len(bodies[p]) :
                /\ bodiesWithResponses[p][i].index = lookups[p][i].index
                /\ bodiesWithResponses[p][i].cached = lookups[p][i].cached
           /\ Len(uncachedBodies[p]) = Len(MissesAtLookup(p))

\* C17 witness: the origin has been called for a batch of three whose lookups
\* have all returned, one of them as a hit.
JoinBeforeDispatchWitness ==
  \E p \in Instances :
    /\ pc[p] = "upstream"
    /\ Len(bodies[p]) = 3
    /\ AllReturned(p)
    /\ Len(HitsAtLookup(p)) = 1
    /\ Len(originRequests[p]) = 1

AnsweredAt(p, q) ==
  IF Len(MissesAtLookup(p)) > 1
  THEN JSON_parse(uncachedResponse[p].body).elems[q]
  ELSE JSON_parse(uncachedResponse[p].body)

\* The call a result object answers (the origin echoes `id` and names the
\* method).
CallOf(result) == JObj(result.hasId, result.id, result.method, "")

\* C19: with invocations running concurrently on one store, every cache.put an
\* invocation issues is for a call that missed at its lookup, under that call's
\* key, and carries the text of the value the origin's answer holds at the
\* call's position among the misses; every put still pending is one of those;
\* and every entry of the store is the text of a result under the key derived
\* from the call of some request that this result answers.
CacheContentIntegrity ==
  /\ \A p \in Instances :
       /\ \A w \in issued[p] :
            LET i == w.index + 1
            IN  /\ ~lookups[p][i].cached
                /\ w.key = cacheKeyForRequestAndBody(request[p], bodies[p][i])
                /\ w.body = JSON_stringify(AnsweredAt(p, MissPosition(p, i)))
       /\ puts[p] \subseteq {Stored(w) : w \in issued[p]}
  /\ \A e \in cache :
       /\ e.body.k = "json"
       /\ e.body.v.k = "object"
       /\ \E r \in SharedRequests :
            e.key = cacheKeyForRequestAndBody(r, JSON_stringify(CallOf(e.body.v)))

\* C19 witness: two invocations answered the same call under different ids at
\* the same time, both wrote their result under the one key, and the store
\* holds one of the two.
CacheContentIntegrityWitness ==
  /\ pc["w1"] = "done"
  /\ pc["w2"] = "done"
  /\ puts["w1"] = {}
  /\ puts["w2"] = {}
  /\ \E x \in issued["w1"], y \in issued["w2"] :
       /\ x.key = y.key
       /\ x.body # y.body
       /\ Stored(x) \in cache \/ Stored(y) \in cache

\* The text returned to the caller for call i of an assembled response.
ReturnedText(p, i) ==
  IF Len(bodies[p]) = 1 THEN response[p].body
  ELSE JSON_stringify(response[p].body.v.elems[i])

\* C20: the body a lookup records for a hit is the body of the entry the store
\* holds under the call's key, and the text an assembled response returns for
\* a call that was a hit is that body, `id` included: nothing of it is
\* rewritten for the current caller.
HitServedVerbatim ==
  [][\A p \in Instances :
       /\ \A i \in DOMAIN lookups'[p] \ DOMAIN lookups[p] :
            lookups'[p][i].cached =>
              \E e \in cache :
                /\ e.key = cacheKeyForRequestAndBody(request[p], bodies[p][i])
                /\ e.body = lookups'[p][i].response
       /\ Assembled(p) =>
            \A i \in 1..Len(bodies[p]) :
              lookups[p][i].cached => ReturnedText(p, i) = lookups[p][i].response]_vars

\* C20 witness: a batch whose first call has id 1 was answered from the cache
\* with a result that carries id 2, the id of the call that populated the
\* entry.
HitServedVerbatimWitness ==
  \E p \in Instances :
    /\ Assembled(p)
    /\ Len(bodies[p]) = 2
    /\ lookups[p][1].cached
    /\ JSON_parse(bodies[p][1]).id = 1
    /\ response[p].body.v.elems[1].id = 2

====
